---- MODULE Spec2Model ----
(***************************************************************************)
(* Model of the multi-segment SBC solver of fc25-sbc-solver: the           *)
(* POST /api/sbc/solve route with tryBuildSquad, assignPlayersToPositions, *)
(* validateSquad, summarizeSquad and estimateChemistry (the server.js      *)
(* embedded in src/Dockerfile, lines 21-437).                              *)
(*                                                                         *)
(* Conventions.  A JS number field that is absent, undefined or 0 is 0     *)
(* here: the code reads every such field through `x && ...` or `x || d`,   *)
(* which treat the three alike.  An absent count map is the empty          *)
(* sequence of entries.  A failure reason is a tuple whose first element   *)
(* names the check that produced it, followed by the values the code       *)
(* interpolates into the message.                                          *)
(***************************************************************************)
EXTENDS Integers, Sequences, FiniteSets, TLC

\* ------------------------------------------------------------------ bounds
MaxPool == 2        \* longest candidates[] of a request
MaxSegs == 2        \* longest segments[] of a request

\* ------------------------------------------------------- program constants
MaxReshuffles == 8  \* for (let i = 0; i < 8; i++)
ChemCap == 33       \* clamp(Math.round(chem), 0, 33)

None == <<>>

\* ------------------------------------------------------------ input values
\* Candidate records of the request body (header doc, "candidates").
\* 1 and 2 tie on price and rating, so their relative order after the stable
\* objective sort is the order the caller (or _.shuffle) gave them.
\* 4 has no price.
Players ==
  { [id |-> 1, rating |-> 84, position |-> "CM",  altPositions |-> {},
     nation |-> "ENG", league |-> "PL", club |-> "ARS", rare |-> TRUE,  price |-> 1000],
    [id |-> 2, rating |-> 84, position |-> "CM",  altPositions |-> {"CAM"},
     nation |-> "ENG", league |-> "PL", club |-> "CHE", rare |-> FALSE, price |-> 1000],
    [id |-> 3, rating |-> 86, position |-> "RW",  altPositions |-> {},
     nation |-> "FRA", league |-> "L1", club |-> "PSG", rare |-> TRUE,  price |-> 3000],
    [id |-> 4, rating |-> 82, position |-> "CAM", altPositions |-> {"CM"},
     nation |-> "ENG", league |-> "PL", club |-> "CHE", rare |-> FALSE, price |-> 0] }

\* The requirement fields the code reads, and maxTotalPrice of the
\* RequirementSpec, which no line of the code reads.
Req(positions, allowDuplicates, minOverall, maxOverall, minRare, minNationCount, minLeagueCount, minClubCount, minChemistry, maxTotalPrice) ==
  [positions |-> positions, allowDuplicates |-> allowDuplicates,
   minOverall |-> minOverall, maxOverall |-> maxOverall, minRare |-> minRare,
   minNationCount |-> minNationCount, minLeagueCount |-> minLeagueCount,
   minClubCount |-> minClubCount, minChemistry |-> minChemistry,
   maxTotalPrice |-> maxTotalPrice]

Requirements ==
  { Req(<<"CM">>, FALSE, 0, 0, 0, <<>>, <<>>, <<>>, 0, 500),
    Req(<<"CM">>, FALSE, 0, 0, 0, <<>>, <<>>, <<<<"ARS", 1>>>>, 0, 0),
    Req(<<"CM", "CAM">>, FALSE, 0, 0, 0, <<>>, <<>>, <<>>, 2, 0),
    Req(<<"LW", "CM">>, FALSE, 84, 86, 1,
        <<<<"ENG", 1>>>>, <<<<"L1", 1>>>>, <<<<"CHE", 1>>>>, 1, 0),
    Req(<<"CM", "CM">>, TRUE, 0, 0, 0, <<>>, <<>>, <<>>, 0, 0),
    Req(<<>>, FALSE, 0, 0, 0, <<>>, <<>>, <<>>, 0, 0) }

Objectives == {"cheapest", "highest", "balanced"}

Options == [objective : Objectives, preferAltPositions : BOOLEAN]

\* ------------------------------------------------------------------ helpers
SeqsUpTo(S, n) == UNION { [1..k -> S] : k \in 0..n }

DistinctIds(s) == \A i, j \in DOMAIN s : i # j => s[i].id # s[j].id

Perms(n) == { f \in [1..n -> 1..n] : \A i, j \in 1..n : i # j => f[i] # f[j] }

Min(S) == CHOOSE x \in S : \A y \in S : x <= y

Max2(a, b) == IF a >= b THEN a ELSE b

RECURSIVE SumOver(_, _)
SumOver(S, f) ==
  IF S = {} THEN 0
  ELSE LET x == CHOOSE y \in S : TRUE IN f[x] + SumOver(S \ {x}, f)

RECURSIVE SumSeq(_)
SumSeq(s) == IF s = <<>> THEN 0 ELSE Head(s) + SumSeq(Tail(s))

\* ---------------------------------------------------------------- utilities
clamp(n, lo, hi) == IF n < lo THEN lo ELSE IF n > hi THEN hi ELSE n

\* countByProp(list, prop)[k], 0 for a key the object does not hold
countByProp(list, prop, k) ==
  Cardinality({ i \in DOMAIN list : list[i][prop] = k })

KeysOf(list, prop) == { list[i][prop] : i \in DOMAIN list }

\* sum over Object.values(countByProp(...)) of Math.max(0, n - 1)
Overlap(list, prop) ==
  SumOver(KeysOf(list, prop),
          [k \in KeysOf(list, prop) |-> Max2(0, countByProp(list, prop, k) - 1)])

\* mutant: league and nation overlaps weigh as much as club overlaps
estimateChemistry_wholeWeights(players) ==
  LET q == 4 * Overlap(players, "club") + 4 * Overlap(players, "league")
           + 4 * Overlap(players, "nation")
  IN  clamp((q + 2) \div 4, 0, ChemCap)

\* chem is a multiple of 0.25: it is kept in quarters, and Math.round (half
\* up) of q/4 is floor((q + 2) / 4).
estimateChemistry(players) ==
  LET q == 4 * Overlap(players, "club") + 2 * Overlap(players, "league")
           + Overlap(players, "nation")
  IN  clamp((q + 2) \div 4, 0, ChemCap)

\* mutant: a player placed twice is paid for once
summarizeSquad_payOnce(squad) ==
  LET n == Len(squad)
      first == { i \in DOMAIN squad : \A j \in 1..(i - 1) : squad[j].id # squad[i].id }
  IN
  [cost |-> SumSeq([i \in DOMAIN squad |-> IF i \in first THEN squad[i].price ELSE 0]),
   avgRating |-> IF n > 0
                 THEN (200 * SumSeq([i \in DOMAIN squad |-> squad[i].rating]) + n)
                      \div (2 * n)
                 ELSE 0,
   chemEstimate |-> estimateChemistry(squad)]

\* avgRating is kept in hundredths: _.round(mean, 2)
summarizeSquad(squad) ==
  LET n == Len(squad) IN
  [cost |-> SumSeq([i \in DOMAIN squad |-> squad[i].price]),
   avgRating |-> IF n > 0
                 THEN (200 * SumSeq([i \in DOMAIN squad |-> squad[i].rating]) + n)
                      \div (2 * n)
                 ELSE 0,
   chemEstimate |-> estimateChemistry(squad)]

candidatePassesBasic(req, player) ==
  /\ ~(req.minOverall # 0 /\ player.rating < req.minOverall)
  /\ ~(req.maxOverall # 0 /\ player.rating > req.maxOverall)
  /\ ~(req.minRare > 0 /\ ~player.rare)

\* ------------------------------------------------------- objective sorting
\* _.sortBy(pool, p => p.price || Number.MAX_SAFE_INTEGER): a candidate
\* without price sorts after every priced one (prices are below 2^53 - 1).
CheapestBefore(a, b) == a.price # 0 /\ (b.price = 0 \/ a.price < b.price)

\* _.orderBy(pool, ["rating", p => -(p.price || 0)], ["desc", "asc"])
HighestBefore(a, b) ==
  \/ a.rating > b.rating
  \/ a.rating = b.rating /\ (0 - a.price) < (0 - b.price)

\* rating per price: (p.rating || 0) / (p.price || (p.rating ? 1000 : 1))
BalancedDen(p) == IF p.price # 0 THEN p.price ELSE IF p.rating # 0 THEN 1000 ELSE 1

\* _.orderBy(pool, [ratio, "rating"], ["desc", "desc"]); the quotients are
\* compared by cross-multiplication
BalancedBefore(a, b) ==
  LET x == a.rating * BalancedDen(b)
      y == b.rating * BalancedDen(a)
  IN  x > y \/ (x = y /\ a.rating > b.rating)

Before(objective, a, b) ==
  IF objective = "cheapest" THEN CheapestBefore(a, b)
  ELSE IF objective = "highest" THEN HighestBefore(a, b)
  ELSE BalancedBefore(a, b)

\* mutant: the pool is taken in the order given
SortPool_asGiven(objective, pool) == pool

\* lodash sorts stably: equal keys keep their input order
SortPool(objective, pool) ==
  LET n == Len(pool)
      Precedes(j, i) ==
        \/ Before(objective, pool[j], pool[i])
        \/ ~Before(objective, pool[i], pool[j]) /\ j < i
      Rank(i) == 1 + Cardinality({ j \in 1..n : j # i /\ Precedes(j, i) })
      sorted == [k \in 1..n |-> pool[CHOOSE i \in 1..n : Rank(i) = k]]
  IN  SubSeq(sorted, 1, n)

\* ----------------------------------------------------------- slot assignment
DefaultPositions ==
  <<"GK", "RB", "CB", "CB", "LB", "CM", "CM", "CAM", "RW", "LW", "ST">>

PositionsOf(req) ==
  IF Len(req.positions) > 0 THEN req.positions ELSE DefaultPositions

\* s.includes("W"), over the position names of the game
HasW(s) == s \in {"RW", "LW", "RWB", "LWB"}

\* Array.prototype.find: the index of the first element in S, 0 for undefined
Find(S) == IF S = {} THEN 0 ELSE Min(S)

StrictMatch(pool, used, slot) ==
  Find({ i \in DOMAIN pool : pool[i].id \notin used /\ pool[i].position = slot })

AltMatch(pool, used, slot) ==
  Find({ i \in DOMAIN pool : pool[i].id \notin used /\ slot \in pool[i].altPositions })

WideMatch(pool, used, slot) ==
  Find({ i \in DOMAIN pool :
           pool[i].id \notin used /\ HasW(pool[i].position) /\ HasW(slot) })

\* mutant: the earliest candidate that fits by position or by altPositions
PickFor_earliest(pool, used, slot, preferAlt) ==
  LET a == Find({ i \in DOMAIN pool :
                  /\ pool[i].id \notin used
                  /\ \/ pool[i].position = slot
                     \/ preferAlt /\ slot \in pool[i].altPositions })
  IN  IF a = 0 THEN WideMatch(pool, used, slot) ELSE a

PickFor(pool, used, slot, preferAlt) ==
  LET a == StrictMatch(pool, used, slot)
      b == IF a = 0 /\ preferAlt THEN AltMatch(pool, used, slot) ELSE a
  IN  IF b = 0 THEN WideMatch(pool, used, slot) ELSE b

\* squad.push({ ...pick, assignedPosition: slot })
Assigned(pick, slot) == pick @@ ("assignedPosition" :> slot)

\* mutant: the pick is never marked as used
UsedAfter_never(used, pick, allowDuplicates) == used

\* if (!allowDuplicates) used.add(pick.id)
UsedAfter(used, pick, allowDuplicates) ==
  IF allowDuplicates THEN used ELSE used \cup {pick.id}

\* No candidate found for slot
NoCandidate(slot, squad) ==
  [ok |-> FALSE, reason |-> <<"No candidate for position", slot>>, squad |-> squad]

RECURSIVE AssignSlots(_, _, _, _, _, _, _)
\* mutant: a slot without candidate is passed over instead of failing
AssignPick_skipSlot(pool, positions, k, used, squad, allowDuplicates, preferAlt, pick) ==
  IF pick # 0
  THEN AssignSlots(pool, positions, k + 1,
                   UsedAfter(used, pool[pick], allowDuplicates),
                   Append(squad, Assigned(pool[pick], positions[k])),
                   allowDuplicates, preferAlt)
  ELSE AssignSlots(pool, positions, k + 1, used, squad, allowDuplicates, preferAlt)

\* one turn of `for (const slot of positions)`, pick being what the finds gave
AssignPick(pool, positions, k, used, squad, allowDuplicates, preferAlt, pick) ==
  IF pick # 0
  THEN AssignSlots(pool, positions, k + 1,
                   UsedAfter(used, pool[pick], allowDuplicates),
                   Append(squad, Assigned(pool[pick], positions[k])),
                   allowDuplicates, preferAlt)
  ELSE NoCandidate(positions[k], squad)

AssignSlots(pool, positions, k, used, squad, allowDuplicates, preferAlt) ==
  IF k > Len(positions) THEN [ok |-> TRUE, reason |-> None, squad |-> squad]
  ELSE AssignPick(pool, positions, k, used, squad, allowDuplicates, preferAlt,
                  PickFor(pool, used, positions[k], preferAlt))

\* mutant: the pool is not filtered
FilterPool_none(req, candidates) == candidates

FilterPool(req, candidates) ==
  SelectSeq(candidates, LAMBDA p : candidatePassesBasic(req, p))

assignPlayersToPositions(req, candidates, options) ==
  AssignSlots(SortPool(options.objective, FilterPool(req, candidates)),
              PositionsOf(req), 1, {}, <<>>,
              req.allowDuplicates, options.preferAltPositions)

\* ---------------------------------------------------------------- validation
\* the first entry of a count map the squad misses, 0 when it meets them all
FirstShort(entries, squad, prop) ==
  Find({ e \in DOMAIN entries : countByProp(squad, prop, entries[e][1]) < entries[e][2] })

Fail(reason) == [ok |-> FALSE, reason |-> reason, summary |-> None]

\* `Need ${min} ${nation} (have ${have})`
NationReason(entries, squad, e) ==
  <<"Need", entries[e][2], entries[e][1], countByProp(squad, "nation", entries[e][1])>>

\* `Need ${min} from ${league} (have ${have})`, the same text for a club
FromReason(entries, squad, prop, e) ==
  <<"Need from", entries[e][2], entries[e][1], countByProp(squad, prop, entries[e][1])>>

ChemReason(req, summary) ==
  <<"Chemistry too low", req.minChemistry, summary.chemEstimate>>

\* mutant: the chemistry check is made first
validateSquad_chemistryFirst(req, squad) ==
  LET summary == summarizeSquad(squad)
      n == FirstShort(req.minNationCount, squad, "nation")
      l == FirstShort(req.minLeagueCount, squad, "league")
      c == FirstShort(req.minClubCount, squad, "club")
  IN  IF req.minChemistry # 0 /\ summary.chemEstimate < req.minChemistry
      THEN Fail(ChemReason(req, summary))
      ELSE IF n # 0 THEN Fail(NationReason(req.minNationCount, squad, n))
      ELSE IF l # 0 THEN Fail(FromReason(req.minLeagueCount, squad, "league", l))
      ELSE IF c # 0 THEN Fail(FromReason(req.minClubCount, squad, "club", c))
      ELSE [ok |-> TRUE, reason |-> None, summary |-> summary]

validateSquad(req, squad) ==
  LET summary == summarizeSquad(squad)
      n == FirstShort(req.minNationCount, squad, "nation")
      l == FirstShort(req.minLeagueCount, squad, "league")
      c == FirstShort(req.minClubCount, squad, "club")
  IN  IF n # 0 THEN Fail(NationReason(req.minNationCount, squad, n))
      ELSE IF l # 0 THEN Fail(FromReason(req.minLeagueCount, squad, "league", l))
      ELSE IF c # 0 THEN Fail(FromReason(req.minClubCount, squad, "club", c))
      ELSE IF req.minChemistry # 0 /\ summary.chemEstimate < req.minChemistry
           THEN Fail(ChemReason(req, summary))
      ELSE [ok |-> TRUE, reason |-> None, summary |-> summary]

\* ------------------------------------------------------------ tryBuildSquad
\* What tryBuildSquad hands back: { ok, squad, summary } on success, the
\* failed attempt ({ ok, reason, squad }) from the fast path, { ok, reason }
\* after the loop.  The route reads an absent squad as [].
Built(attempt, check) ==
  [ok |-> TRUE, reason |-> None, squad |-> attempt.squad, summary |-> check.summary]

Failed(reason, squad) ==
  [ok |-> FALSE, reason |-> reason, squad |-> squad, summary |-> None]

\* mutant: the loop takes one turn more
LoopRuns_oneMore(n) == n <= MaxReshuffles

\* mutant: a first attempt that fails at assignment goes on to validation
FastPath_none(a) == FALSE

\* line 306: if (!attempt.ok) return attempt;
FastPath(a) == ~a.ok

\* mutant: a passing attempt is not returned
Passes_never(c) == FALSE

\* lines 309, 317: if (check.ok) return { ok: true, ... }
Passes(c) == c.ok

\* for (let i = 0; i < 8; i++)
LoopRuns(n) == n < MaxReshuffles

\* mutant: a reshuffled attempt that fails at assignment is returned
SkipAttempt_return(a, res) ==
  [pc |-> "returned", result |-> Failed(a.reason, a.squad)]

\* if (!attempt.ok) continue;  the loop goes on and nothing is returned
SkipAttempt(a, res) == [pc |-> "reshuffle", result |-> res]

\* return { ok: false, reason: check.reason || "Unable to meet ..." }
Exhausted(check) ==
  Failed(IF check.reason # None THEN check.reason
         ELSE <<"Unable to meet constraints after several attempts.">>, <<>>)

\* ---------------------------------------------------------------- the route
\* What a field of req.body can be: an array, absent (also when the body itself
\* is absent: req.body || {}), or a value that is not an array.
Shapes == {"array", "missing", "notArray"}

\* mutant: an empty array passes the check
IsNonEmptyArray_emptyOk(sh, arr) == sh = "array"

\* lines 345, 348: !( !Array.isArray(x) || x.length === 0 )
IsNonEmptyArray(sh, arr) == sh = "array" /\ Len(arr) > 0

\* mutant: the chosen players stay in the pool
RemoveChosen_keepAll(rem, squad) == rem

\* Remove chosen players if duplicates not allowed across segments
RemoveChosen(rem, squad) ==
  LET chosenIds == { squad[k].id : k \in DOMAIN squad }
  IN  SelectSeq(rem, LAMBDA p : p.id \notin chosenIds)

\* mutant: the chosen players are removed whatever allowDuplicates says
RemainingAfter_ignoreFlag(requirements, rem, squad) == RemoveChosen(rem, squad)

RemainingAfter(requirements, rem, squad) ==
  IF ~requirements.allowDuplicates THEN RemoveChosen(rem, squad) ELSE rem

FailSolution(name, res) ==
  [segment |-> name, status |-> "fail", reason |-> res.reason,
   squad |-> res.squad, summary |-> None]

OkSolution(name, res) ==
  [segment |-> name, status |-> "ok", reason |-> None,
   squad |-> res.squad, summary |-> res.summary]

\* mutant: the loop breaks at the first failing segment
AfterFail_break(s, segs) == Len(segs) + 1

\* after a failing segment: continue (the `break` is commented out)
AfterFail(s, segs) == s + 1

VARIABLES
  candidates,   \* req.body.candidates
  segments,     \* req.body.segments, each segment its requirements
  options,      \* req.body.options
  shape,        \* what kind of value req.body.segments and .candidates are
  pc,           \* where the handler and tryBuildSquad stand
  remaining,    \* let remaining = [...candidates]
  solutions,    \* const solutions = []
  seg,          \* index of the segment the for-of loop is at
  attempt,      \* tryBuildSquad: let attempt
  check,        \* tryBuildSquad: let check
  i,            \* tryBuildSquad: the loop counter
  result,       \* const result = tryBuildSquad(...)
  response,     \* what res.status().json() sent
  persisted,    \* the INSERT into sbc_solves was done
  attempts,     \* history: calls of assignPlayersToPositions in this tryBuildSquad
  lastReason,   \* history: the failure reason of the latest attempt of this call
  lastCall      \* history: <<(requirements, pool, result)>> of the call completed last

solveVars == <<candidates, segments, options, shape, pc, remaining, solutions, seg,
               attempt, check, i, result, response, persisted, attempts, lastReason,
               lastCall>>

request == <<candidates, segments, options, shape>>
locals == <<attempt, check, i>>

\* ------------------------------------------- price data source: its values
\* Constants of PostgresFUTGGDataSource and of its callers.
RateLimitDelay == 200      \* this.rateLimitDelay = 200
CacheExpiry == 600000      \* this.cacheExpiry = 10 * 60 * 1000
InterWaveDelay == 1000     \* await this.sleep(1000)
DefaultConcurrent == 5     \* updatePricesForPlayers(cardIds, maxConcurrent = 5)
TopCandidates == 50        \* eligiblePlayers.slice(0, 50)
DefaultPlayersNeeded == 11 \* requirements.playersNeeded || 11

MaxIds == 2         \* longest cardIds list of a direct updatePricesForPlayers call
MaxConcurrent == 2  \* largest maxConcurrent of a direct call
MaxTicks == 1       \* delays beyond the ones the sleeps enforce

\* Date.now() when the call starts; cache entries older than that exist
StartTime == CacheExpiry

\* null of getCachedPrice
NoPrice == -1

\* this.playersMap after loadPlayersFromDatabase, keyed by card_id; Map keeps
\* the insertion order 1, 2, 3.  2 and 3 tie on price.
LoadedPlayers ==
  [id \in 1..3 |->
     [id |-> id,
      rating |-> CASE id = 1 -> 85 [] id = 2 -> 84 [] OTHER -> 86,
      price |-> IF id = 1 THEN 100 ELSE 200,
      lastPriceUpdate |-> 0]]

NoEntry == [present |-> FALSE, price |-> 0, timestamp |-> 0]

\* What this.priceCache can hold when a call starts: nothing, an entry that
\* expires RateLimitDelay from now, one that has just expired, and an entry
\* with price 0.
StartEntries ==
  { NoEntry,
    [present |-> TRUE, price |-> 70, timestamp |-> StartTime - CacheExpiry + RateLimitDelay],
    [present |-> TRUE, price |-> 70, timestamp |-> StartTime - CacheExpiry],
    [present |-> TRUE, price |-> 0, timestamp |-> StartTime - CacheExpiry + RateLimitDelay] }

StartCaches ==
  { c \in [1..3 -> StartEntries] : c[2].price # 0 /\ c[3] = NoEntry }

\* What the price source answers to one fetch: a price, 404, or a failure
\* (another status, a network error).
FetchedPrices == {0, 50, 500}

Outcomes ==
  { [kind |-> "ok", price |-> p] : p \in FetchedPrices }
  \cup { [kind |-> "notFound", price |-> 0], [kind |-> "error", price |-> 0] }

NoRequirements == [priority |-> "none", playersNeeded |-> 0, minRating |-> 0]

\* requirements of a segment; 0 stands for an absent field
SegmentRequirements ==
  [priority : {"high", "medium"}, playersNeeded : {0, 1, 2}, minRating : {0, 85, 90}]

UpdateCalls ==
  { [entry |-> "update", cardIds |-> ids, maxConcurrent |-> c,
     requirements |-> NoRequirements] :
      ids \in { s \in SeqsUpTo(1..3, MaxIds) : \A a, b \in DOMAIN s : a # b => s[a] # s[b] },
      c \in 1..MaxConcurrent }

SegmentCalls ==
  { [entry |-> "segment", cardIds |-> <<>>, maxConcurrent |-> DefaultConcurrent,
     requirements |-> r] : r \in SegmentRequirements }

NoCall == [entry |-> "none", cardIds |-> <<>>, maxConcurrent |-> DefaultConcurrent,
           requirements |-> NoRequirements]

\* ------------------------------------------------- /api/sbc/solutions values
MaxSbcSegments == 2  \* most segments of one SBC definition

SegmentNames == {"Liga Portugal", "Premier League", "Single Squad"}

\* what one call of solveSBCSegment comes to: it throws (or the solver is not
\* there), or it returns a solution with this totalCost
SolveOutcomes ==
  { [threw |-> TRUE, totalCost |-> 0] }
  \cup { [threw |-> FALSE, totalCost |-> t] : t \in {0, 150, 400} }

VARIABLES
  players,      \* this.playersMap
  priceCache,   \* this.priceCache, by card id
  now,          \* Date.now()
  call,         \* the call under way and its arguments
  upc,          \* where the call stands
  batches,      \* updatePricesForPlayers: const batches
  wave,         \* updatePricesForPlayers: i + 1, the batch under way
  tasks,        \* the promises of batch.map, by card id
  results,      \* updatePricesForPlayers: const results
  settledAt,    \* Date.now() when the sleep between two batches began
  eligible,     \* getCheapestSquadForSegment: const eligiblePlayers
  selection,    \* what getCheapestSquadForSegment returned, <<>> before
  ticks         \* history: number of extra delays

priceVars == <<players, priceCache, now, call, upc, batches, wave, tasks, results,
               settledAt, eligible, selection, ticks>>

VARIABLES
  sbcDef,       \* sbc.segments, by name
  sbcAt,        \* index of the segment the inner for-of loop is at
  sbcSolution,  \* const sbcSolution
  sbcLog        \* history: what solveSBCSegment came to, per segment

sbcVars == <<sbcDef, sbcAt, sbcSolution, sbcLog>>

VARIABLES
  initialized,    \* PostgresSBCSolver: this.initialized
  callers,        \* the solveSBCSegment calls, where each one stands
  loadedBatches,  \* the batches of rows this.playersMap holds
  tableBatches    \* batches of rows in fut_players (totalPlayers / batchSize)

loadVars == <<initialized, callers, loadedBatches, tableBatches>>

VARIABLES
  solverPlayers,    \* SBCSolver: this.players
  optReqs,          \* solveSBC: requirements
  opc,              \* where solveSBC stands
  eligiblePlayers,  \* solveSBC: const eligiblePlayers
  optimized         \* solveSBC: const optimizedSquad

optVars == <<solverPlayers, optReqs, opc, eligiblePlayers, optimized>>

vars == <<solveVars, priceVars, sbcVars, loadVars, optVars>>

\* the variables the solve route does not touch
outside == <<priceVars, sbcVars, loadVars, optVars>>

PricesIdle ==
  /\ players = LoadedPlayers
  /\ priceCache = [id \in 1..3 |-> NoEntry]
  /\ now = StartTime
  /\ call = NoCall
  /\ upc = "idle"
  /\ batches = <<>>
  /\ wave = 0
  /\ tasks = <<>>
  /\ results = <<>>
  /\ settledAt = 0
  /\ eligible = <<>>
  /\ selection = <<>>
  /\ ticks = 0

SbcIdle ==
  /\ sbcDef = <<>>
  /\ sbcAt = 0
  /\ sbcSolution = [totalCost |-> 0, segments |-> <<>>]
  /\ sbcLog = <<>>

LoadIdle ==
  /\ initialized = TRUE
  /\ callers = <<>>
  /\ loadedBatches = {}
  /\ tableBatches = 0

\* advancedOptimization's null
NoSquad == [null |-> TRUE, players |-> <<>>, totalCost |-> 0]

OptIdle ==
  /\ solverPlayers = {}
  /\ optReqs = <<>>
  /\ opc = "idle"
  /\ eligiblePlayers = <<>>
  /\ optimized = NoSquad

SolveIdle ==
  /\ candidates = <<>>
  /\ segments = <<>>
  /\ options = [objective |-> "cheapest", preferAltPositions |-> FALSE]
  /\ shape = [segments |-> "array", candidates |-> "array"]
  /\ pc = "idle"
  /\ remaining = <<>>
  /\ solutions = <<>>
  /\ seg = 0
  /\ attempt = None
  /\ check = None
  /\ i = 0
  /\ result = None
  /\ response = None
  /\ persisted = FALSE
  /\ attempts = 0
  /\ lastReason = None
  /\ lastCall = <<>>

Init ==
  /\ PricesIdle
  /\ SbcIdle
  /\ LoadIdle
  /\ OptIdle
  /\ candidates \in { c \in SeqsUpTo(Players, MaxPool) : DistinctIds(c) }
  /\ segments \in SeqsUpTo(Requirements, MaxSegs)
  /\ options \in Options
  /\ shape \in { s \in [segments : Shapes, candidates : Shapes] :
                    /\ s.segments # "array" => segments = <<>>
                    /\ s.candidates # "array" => candidates = <<>> }
  /\ pc = "received"
  /\ remaining = <<>>
  /\ solutions = <<>>
  /\ seg = 0
  /\ attempt = None
  /\ check = None
  /\ i = 0
  /\ result = None
  /\ response = None
  /\ persisted = FALSE
  /\ attempts = 0
  /\ lastReason = None
  /\ lastCall = <<>>

\* lines 343-353: the body is checked, then the loop is set up
Accept ==
  /\ pc = "received"
  /\ IF ~IsNonEmptyArray(shape.segments, segments)
     THEN /\ response' = [status |-> 400, error |-> "segments[] is required"]
          /\ pc' = "sent"
          /\ UNCHANGED <<remaining, solutions, seg>>
     ELSE IF ~IsNonEmptyArray(shape.candidates, candidates)
     THEN /\ response' = [status |-> 400, error |-> "candidates[] is required"]
          /\ pc' = "sent"
          /\ UNCHANGED <<remaining, solutions, seg>>
     ELSE /\ solutions' = <<>>
          /\ remaining' = candidates
          /\ seg' = 1
          /\ pc' = "loop"
          /\ UNCHANGED response
  /\ UNCHANGED outside
  /\ UNCHANGED <<request, locals, result, persisted, attempts, lastReason, lastCall>>

\* lines 356-359 and 305-309: the segment's call of tryBuildSquad, up to the
\* end of its fast path
FirstAttempt ==
  /\ pc = "loop"
  /\ seg <= Len(segments)
  /\ LET requirements == segments[seg]
     IN \E a \in {assignPlayersToPositions(requirements, remaining, options)} :
        \E c \in {validateSquad(requirements, a.squad)} :
         /\ attempts' = 1
         /\ IF FastPath(a)
            THEN /\ result' = Failed(a.reason, a.squad)
                 /\ lastReason' = a.reason
                 /\ pc' = "returned"
                 /\ UNCHANGED locals
            ELSE IF Passes(c)
            THEN /\ result' = Built(a, c)
                 /\ lastReason' = None
                 /\ pc' = "returned"
                 /\ UNCHANGED locals
            ELSE /\ attempt' = a
                 /\ check' = c
                 /\ i' = 0
                 /\ lastReason' = c.reason
                 /\ pc' = "reshuffle"
                 /\ UNCHANGED result
  /\ UNCHANGED outside
  /\ UNCHANGED <<request, remaining, solutions, seg, response, persisted, lastCall>>

\* lines 312-319: one turn of the loop, on one outcome of _.shuffle
Reshuffle ==
  /\ pc = "reshuffle"
  /\ LoopRuns(i)
  /\ \E perm \in Perms(Len(remaining)) :
       LET requirements == segments[seg]
           shuffled == SubSeq([k \in 1..Len(remaining) |-> remaining[perm[k]]],
                              1, Len(remaining))
       IN \E a \in {assignPlayersToPositions(requirements, shuffled, options)} :
          \E c \in {validateSquad(requirements, a.squad)} :
           /\ attempts' = attempts + 1
           /\ attempt' = a
           /\ IF ~a.ok
              THEN /\ pc' = SkipAttempt(a, result).pc
                   /\ result' = SkipAttempt(a, result).result
                   /\ i' = i + 1
                   /\ lastReason' = a.reason
                   /\ UNCHANGED check
              ELSE IF Passes(c)
              THEN /\ result' = Built(a, c)
                   /\ lastReason' = None
                   /\ pc' = "returned"
                   /\ UNCHANGED <<check, i>>
              ELSE /\ check' = c
                   /\ i' = i + 1
                   /\ lastReason' = c.reason
                   /\ UNCHANGED <<result, pc>>
  /\ UNCHANGED outside
  /\ UNCHANGED <<request, remaining, solutions, seg, response, persisted, lastCall>>

\* line 321: the loop ran out
GiveUp ==
  /\ pc = "reshuffle"
  /\ ~LoopRuns(i)
  /\ result' = Exhausted(check)
  /\ pc' = "returned"
  /\ UNCHANGED outside
  /\ UNCHANGED <<request, locals, remaining, solutions, seg, response, persisted,
                 attempts, lastReason, lastCall>>

\* lines 360-375: the segment's solution is recorded
Record ==
  /\ pc = "returned"
  /\ LET requirements == segments[seg]
         name == Len(solutions) + 1
     IN  IF ~result.ok
         THEN /\ solutions' = Append(solutions, FailSolution(name, result))
              /\ seg' = AfterFail(seg, segments)
              /\ UNCHANGED remaining
         ELSE /\ solutions' = Append(solutions, OkSolution(name, result))
              /\ remaining' = RemainingAfter(requirements, remaining, result.squad)
              /\ seg' = seg + 1
  /\ lastCall' = <<[req |-> segments[seg], pool |-> remaining, res |-> result]>>
  /\ attempt' = None
  /\ check' = None
  /\ i' = 0
  /\ result' = None
  /\ pc' = "loop"
  /\ UNCHANGED outside
  /\ UNCHANGED <<request, response, persisted, attempts, lastReason>>

\* lines 378-390: the solve is stored when a database is configured and the
\* INSERT succeeds (a failure is caught and logged), then
\* res.json({ ok: true, solutions })
Respond ==
  /\ pc = "loop"
  /\ seg > Len(segments)
  /\ \E stored \in BOOLEAN : persisted' = stored
  /\ response' = [status |-> 200, solutions |-> solutions]
  /\ pc' = "sent"
  /\ UNCHANGED outside
  /\ UNCHANGED <<request, locals, remaining, solutions, seg, result, attempts,
                 lastReason, lastCall>>

Next ==
  \/ Accept
  \/ FirstAttempt
  \/ Reshuffle
  \/ GiveUp
  \/ Record
  \/ Respond

Spec == Init /\ [][Next]_vars

\* ------------------------------------------- validateSquad on its own inputs
MaxSquad == 2       \* longest squad handed to validateSquad

NationMaps == { <<>>, <<<<"ENG", 1>>>>, <<<<"FRA", 1>>, <<"ENG", 2>>>> }
LeagueMaps == { <<>>, <<<<"PL", 2>>>>, <<<<"L1", 1>>>> }
ClubMaps == { <<>>, <<<<"CHE", 1>>>>, <<<<"ARS", 1>>, <<"PSG", 1>>>> }

ValidateReqs ==
  { Req(<<"CM">>, FALSE, 0, 0, 0, n, l, c, ch, 0) :
      n \in NationMaps, l \in LeagueMaps, c \in ClubMaps, ch \in 0..2 }

ValidateSquads == SeqsUpTo({ Assigned(p, p.position) : p \in Players }, MaxSquad)

InitValidate ==
  /\ PricesIdle
  /\ SbcIdle
  /\ LoadIdle
  /\ OptIdle
  /\ candidates = <<>>
  /\ segments \in { <<r>> : r \in ValidateReqs }
  /\ options = [objective |-> "cheapest", preferAltPositions |-> FALSE]
  /\ shape = [segments |-> "array", candidates |-> "array"]
  /\ pc = "assigned"
  /\ remaining = <<>>
  /\ solutions = <<>>
  /\ seg = 1
  /\ attempt \in { [ok |-> TRUE, reason |-> None, squad |-> q] : q \in ValidateSquads }
  /\ check = None
  /\ i = 0
  /\ result = None
  /\ response = None
  /\ persisted = FALSE
  /\ attempts = 1
  /\ lastReason = None
  /\ lastCall = <<>>

\* line 308: check = validateSquad(req, attempt.squad)
Validate ==
  /\ pc = "assigned"
  /\ check' = validateSquad(segments[seg], attempt.squad)
  /\ pc' = "validated"
  /\ UNCHANGED outside
  /\ UNCHANGED <<request, remaining, solutions, seg, attempt, i, result, response,
                 persisted, attempts, lastReason, lastCall>>

NextValidate == Validate

SpecValidate == InitValidate /\ [][NextValidate]_vars

\* ------------------------------- assignPlayersToPositions on its own inputs
MaxAssignPool == 3  \* longest pool handed to assignPlayersToPositions

\* 5 plays LW only as an alternative position; 6 has the rating of 1 and 2
\* and a lower price
AssignPlayers ==
  Players \cup
  { [id |-> 5, rating |-> 80, position |-> "ST", altPositions |-> {"LW"},
     nation |-> "FRA", league |-> "L1", club |-> "PSG", rare |-> FALSE, price |-> 500],
    [id |-> 6, rating |-> 84, position |-> "CM", altPositions |-> {},
     nation |-> "ENG", league |-> "PL", club |-> "ARS", rare |-> FALSE, price |-> 400] }

AssignPositions ==
  { <<"CAM">>, <<"CAM", "CM">>, <<"LW">>, <<"LW", "RW">>, <<"CM", "CM">> }

AssignReqs ==
  { Req(pos, d, 0, 0, 0, <<>>, <<>>, <<>>, 0, 0) : pos \in AssignPositions, d \in BOOLEAN }

InitAssign ==
  /\ PricesIdle
  /\ SbcIdle
  /\ LoadIdle
  /\ OptIdle
  /\ candidates \in { c \in SeqsUpTo(AssignPlayers, MaxAssignPool) : DistinctIds(c) }
  /\ segments \in { <<r>> : r \in AssignReqs }
  /\ options \in Options
  /\ shape = [segments |-> "array", candidates |-> "array"]
  /\ pc = "called"
  /\ remaining = candidates
  /\ solutions = <<>>
  /\ seg = 1
  /\ attempt = None
  /\ check = None
  /\ i = 0
  /\ result = None
  /\ response = None
  /\ persisted = FALSE
  /\ attempts = 0
  /\ lastReason = None
  /\ lastCall = <<>>

\* line 305: let attempt = assignPlayersToPositions(req, candidates, options)
Assign ==
  /\ pc = "called"
  /\ attempt' = assignPlayersToPositions(segments[seg], remaining, options)
  /\ attempts' = 1
  /\ pc' = "assigned"
  /\ UNCHANGED outside
  /\ UNCHANGED <<request, remaining, solutions, seg, check, i, result, response,
                 persisted, lastReason, lastCall>>

NextAssign == Assign

SpecAssign == InitAssign /\ [][NextAssign]_vars

\* ------------------------------------------- validateSquad on whole squads
FormationSize == 11     \* slots of a full formation
MaxChemSquad == 21      \* longest squad whose chemistry is estimated

GroupNames == <<"a", "b", "c", "d", "e", "f", "g", "h", "i", "j", "k">>

\* into how many clubs, leagues or nations a squad is split
GroupCounts == {1, 2, FormationSize}

\* n players, player j in club j mod gc, league j mod gl, nation j mod gn
ChemSquad(n, gc, gl, gn) ==
  [j \in 1..n |->
     [id |-> j, rating |-> 84, position |-> "CM", altPositions |-> {},
      nation |-> GroupNames[(j % gn) + 1], league |-> GroupNames[(j % gl) + 1],
      club |-> GroupNames[(j % gc) + 1], rare |-> FALSE, price |-> 1000,
      assignedPosition |-> "CM"]]

ChemSquads ==
  { ChemSquad(n, gc, gl, gn) :
      n \in {0, 1, FormationSize, MaxChemSquad},
      gc \in GroupCounts, gl \in GroupCounts, gn \in GroupCounts }

ChemReq(n, minChemistry) ==
  Req([k \in 1..n |-> "CM"], FALSE, 0, 0, 0, <<>>, <<>>, <<>>, minChemistry, 0)

InitChem ==
  /\ PricesIdle
  /\ SbcIdle
  /\ LoadIdle
  /\ OptIdle
  /\ candidates = <<>>
  /\ attempt \in { [ok |-> TRUE, reason |-> None, squad |-> q] : q \in ChemSquads }
  /\ segments \in { <<ChemReq(Len(attempt.squad), m)>> : m \in {0, 18, 19, 20} }
  /\ options = [objective |-> "cheapest", preferAltPositions |-> FALSE]
  /\ shape = [segments |-> "array", candidates |-> "array"]
  /\ pc = "assigned"
  /\ remaining = <<>>
  /\ solutions = <<>>
  /\ seg = 1
  /\ check = None
  /\ i = 0
  /\ result = None
  /\ response = None
  /\ persisted = FALSE
  /\ attempts = 1
  /\ lastReason = None
  /\ lastCall = <<>>

SpecChem == InitChem /\ [][NextValidate]_vars

\* ------------------------------------- tryBuildSquad on competing candidates
\* the candidates that play CM: 1 and 2 tie on every sort key, 6 ties with
\* neither
RetryPlayers == { p \in AssignPlayers : p.position = "CM" }

\* one CM slot and a club the squad must hold
RetryReqs ==
  { Req(<<"CM">>, FALSE, 0, 0, 0, <<>>, <<>>, <<<<c, 1>>>>, 0, 0) : c \in {"ARS", "CHE"} }

InitRetry ==
  /\ PricesIdle
  /\ SbcIdle
  /\ LoadIdle
  /\ OptIdle
  /\ candidates \in { c \in SeqsUpTo(RetryPlayers, MaxPool) : DistinctIds(c) }
  /\ segments \in { <<r>> : r \in RetryReqs }
  /\ options \in Options
  /\ shape = [segments |-> "array", candidates |-> "array"]
  /\ pc = "received"
  /\ remaining = <<>>
  /\ solutions = <<>>
  /\ seg = 0
  /\ attempt = None
  /\ check = None
  /\ i = 0
  /\ result = None
  /\ response = None
  /\ persisted = FALSE
  /\ attempts = 0
  /\ lastReason = None
  /\ lastCall = <<>>

SpecRetry == InitRetry /\ [][Next]_vars

\* ---------------------------------------------------- the price data source
Range(s) == { s[k] : k \in DOMAIN s }

Take(s, n) == SubSeq(s, 1, IF n < Len(s) THEN n ELSE Len(s))

\* `if (cached)`: null and 0 are both falsy
Truthy(price) == price # NoPrice /\ price # 0

getCachedPrice(cache, id, t) ==
  IF cache[id].present /\ t - cache[id].timestamp < CacheExpiry
  THEN cache[id].price
  ELSE NoPrice

\* mutant: an entry that exists keeps its timestamp
setCachedPrice_keepStamp(cache, id, price, t) ==
  [cache EXCEPT ![id] = [present |-> TRUE, price |-> price,
                         timestamp |-> IF @.present THEN @.timestamp ELSE t]]

\* { price: parseInt(price) || 0, timestamp: Date.now() }
setCachedPrice(cache, id, price, t) ==
  [cache EXCEPT ![id] = [present |-> TRUE, price |-> price, timestamp |-> t]]

RECURSIVE BatchesFrom(_, _, _)
\* for (let i = 0; i < array.length; i += batchSize) batches.push(array.slice(i, i + batchSize))
BatchesFrom(array, k, batchSize) ==
  IF k >= Len(array) THEN <<>>
  ELSE <<SubSeq(array, k + 1, IF k + batchSize < Len(array) THEN k + batchSize ELSE Len(array))>>
       \o BatchesFrom(array, k + batchSize, batchSize)

createBatches(array, batchSize) == BatchesFrom(array, 0, batchSize)

\* mutant: a failure of the price source is not caught
TaskResult_unhandled(o, pl, id) ==
  CASE o.kind = "ok" -> [st |-> "done", price |-> o.price]
    [] o.kind = "notFound" -> [st |-> "done", price |-> 0]
    [] OTHER -> [st |-> "rejected", price |-> 0]

\* What the promise of one card id settles to, given the answer of the price
\* source: the extracted price, 0 on 404, and on any failure the catch of
\* getPlayerPriceFromAPI gives player?.price || 0.  The try/catch of the
\* batch.map callback never sees an exception.
TaskResult(o, pl, id) ==
  CASE o.kind = "ok" -> [st |-> "done", price |-> o.price]
    [] o.kind = "notFound" -> [st |-> "done", price |-> 0]
    [] OTHER -> [st |-> "done", price |-> IF id \in DOMAIN pl THEN pl[id].price ELSE 0]

Waiting == [st |-> "waiting", kind |-> "none", price |-> 0, since |-> 0, at |-> 0]

\* batch.map(async (cardId) => ...): every callback runs up to its first
\* await: a cache hit settles at once, a miss goes to sleep(rateLimitDelay)
Launch(ts, batch, cache, t) ==
  [id \in DOMAIN ts |->
     IF id \in Range(batch)
     THEN LET cached == getCachedPrice(cache, id, t)
          IN  IF Truthy(cached)
              THEN [st |-> "done", kind |-> "cached", price |-> cached,
                    since |-> t, at |-> t]
              ELSE [st |-> "sleeping", kind |-> "none", price |-> 0,
                    since |-> t, at |-> 0]
     ELSE ts[id]]

\* mutant: the batch is not awaited
WaveSettled_noAwait(ts, batch) == TRUE

\* await Promise.all(batchPromises)
WaveSettled(ts, batch) == \A id \in Range(batch) : ts[id].st \in {"done", "rejected"}

\* results.set(cardId, price)
RecordResult(res, id, price) == (id :> price) @@ res

RECURSIVE RecordBatch(_, _, _)
RecordBatch(res, batch, ts) ==
  IF batch = <<>> THEN res
  ELSE RecordBatch(RecordResult(res, Head(batch), ts[Head(batch)].price), Tail(batch), ts)

\* if (this.playersMap.has(cardId)) { price = price; lastPriceUpdate = new Date() }
UpdatePlayers(pl, batch, ts, t) ==
  [id \in DOMAIN pl |->
     IF id \in Range(batch)
     THEN [pl[id] EXCEPT !.price = ts[id].price, !.lastPriceUpdate = t]
     ELSE pl[id]]

playerMatchesCriteria(player, criteria) ==
  ~(criteria.minRating # 0 /\ player.rating < criteria.minRating)

\* (a, b) => a.price !== b.price ? a.price - b.price : b.rating - a.rating
PriceBefore(a, b) == a.price < b.price \/ (a.price = b.price /\ a.rating > b.rating)

\* Array.prototype.sort with that comparator; the sort is stable
SortByPrice(list) ==
  LET n == Len(list)
      Rank(k) == Cardinality({ j \in 1..n : \/ PriceBefore(list[j], list[k])
                                            \/ ~PriceBefore(list[k], list[j]) /\ j < k })
  IN  SubSeq([r \in 1..n |-> list[CHOOSE k \in 1..n : Rank(k) = r - 1]], 1, n)

\* results.push({ ...player }): the list holds copies of the players as they
\* are when it is made
findPlayersByCriteria(pl, criteria) ==
  SortByPrice(SelectSeq(SubSeq(pl, 1, Len(pl)),
                        LAMBDA p : playerMatchesCriteria(p, criteria)))

\* lines 243-245: slice(0, playersNeeded) and the sum of the prices
SelectSquad(list, requirements) ==
  LET needed == IF requirements.playersNeeded # 0 THEN requirements.playersNeeded
                ELSE DefaultPlayersNeeded
      sel == Take(list, needed)
  IN  [players |-> sel, totalCost |-> SumSeq([k \in DOMAIN sel |-> sel[k].price])]

InitPrices ==
  /\ SolveIdle
  /\ SbcIdle
  /\ LoadIdle
  /\ OptIdle
  /\ players = LoadedPlayers
  /\ priceCache \in StartCaches
  /\ now = StartTime
  /\ call \in UpdateCalls \cup SegmentCalls
  /\ upc = "called"
  /\ batches = <<>>
  /\ wave = 0
  /\ tasks = <<>>
  /\ results = <<>>
  /\ settledAt = 0
  /\ eligible = <<>>
  /\ selection = <<>>
  /\ ticks = 0

\* lines 152-167: the batches are made and the first one is launched; with
\* no batch the loop body never runs and results is returned
StartUpdate(ids, c) ==
  \E bs \in {createBatches(ids, c)} :
    /\ batches' = bs
    /\ results' = <<>>
    /\ IF bs = <<>>
       THEN /\ wave' = 0
            /\ tasks' = <<>>
            /\ upc' = "done"
       ELSE /\ wave' = 1
            /\ tasks' = Launch([id \in Range(ids) |-> Waiting], bs[1], priceCache, now)
            /\ upc' = "wave"

\* a caller's updatePricesForPlayers(cardIds, maxConcurrent)
UpdatePrices ==
  /\ upc = "called"
  /\ call.entry = "update"
  /\ StartUpdate(call.cardIds, call.maxConcurrent)
  /\ UNCHANGED <<players, priceCache, now, call, settledAt, eligible, selection, ticks>>
  /\ UNCHANGED <<solveVars, sbcVars, loadVars, optVars>>

\* solveSBCSegment and getCheapestSquadForSegment up to their first await
FindEligible ==
  /\ upc = "called"
  /\ call.entry = "segment"
  /\ \E el \in {findPlayersByCriteria(players, call.requirements)} :
       /\ eligible' = el
       /\ IF el = <<>>
          THEN /\ selection' = <<[players |-> <<>>, totalCost |-> 0]>>
               /\ upc' = "selected"
               /\ UNCHANGED <<batches, wave, tasks, results>>
          ELSE IF call.requirements.priority = "high"
          THEN /\ StartUpdate([k \in DOMAIN Take(el, TopCandidates) |-> el[k].id],
                              DefaultConcurrent)
               /\ UNCHANGED selection
          ELSE /\ selection' = <<SelectSquad(el, call.requirements)>>
               /\ upc' = "selected"
               /\ UNCHANGED <<batches, wave, tasks, results>>
  /\ UNCHANGED <<players, priceCache, now, call, settledAt, ticks>>
  /\ UNCHANGED <<solveVars, sbcVars, loadVars, optVars>>

\* line 101: sleep(rateLimitDelay) is over and the fetch is sent
FetchStart(id) ==
  /\ upc \in {"wave", "delay"}
  /\ id \in DOMAIN tasks
  /\ tasks[id].st = "sleeping"
  /\ now' = Max2(now, tasks[id].since + RateLimitDelay)
  /\ tasks' = [tasks EXCEPT ![id].st = "fetching"]
  /\ UNCHANGED <<players, priceCache, call, upc, batches, wave, results, settledAt,
                 eligible, selection, ticks>>
  /\ UNCHANGED <<solveVars, sbcVars, loadVars, optVars>>

\* lines 104-129: the answer of the price source arrives
FetchEnd(id) ==
  /\ upc \in {"wave", "delay"}
  /\ id \in DOMAIN tasks
  /\ tasks[id].st = "fetching"
  /\ \E o \in Outcomes :
       \E r \in {TaskResult(o, players, id)} :
         /\ tasks' = [tasks EXCEPT ![id] = [st |-> r.st, kind |-> o.kind,
                                             price |-> r.price, since |-> @.since,
                                             at |-> now]]
         /\ priceCache' = IF o.kind = "ok"
                          THEN setCachedPrice(priceCache, id, o.price, now)
                          ELSE priceCache
  /\ UNCHANGED <<players, now, call, upc, batches, wave, results, settledAt,
                 eligible, selection, ticks>>
  /\ UNCHANGED <<solveVars, sbcVars, loadVars, optVars>>

\* lines 169-182: the batch has settled, its prices are entered; a rejected
\* promise would reject the whole call
Settle ==
  /\ upc = "wave"
  /\ WaveSettled(tasks, batches[wave])
  /\ IF \E id \in Range(batches[wave]) : tasks[id].st = "rejected"
     THEN /\ upc' = "rejected"
          /\ UNCHANGED <<players, results, settledAt>>
     ELSE /\ results' = RecordBatch(results, batches[wave], tasks)
          /\ players' = UpdatePlayers(players, batches[wave], tasks, now)
          /\ settledAt' = now
          /\ upc' = IF wave < Len(batches) THEN "delay" ELSE "done"
  /\ UNCHANGED <<priceCache, now, call, batches, wave, tasks, eligible, selection, ticks>>
  /\ UNCHANGED <<solveVars, sbcVars, loadVars, optVars>>

\* line 181 and lines 155-167: sleep(1000) is over, the next batch is launched
NextWave ==
  /\ upc = "delay"
  /\ \E t \in {Max2(now, settledAt + InterWaveDelay)} :
       /\ now' = t
       /\ tasks' = Launch(tasks, batches[wave + 1], priceCache, t)
  /\ wave' = wave + 1
  /\ upc' = "wave"
  /\ UNCHANGED <<players, priceCache, call, batches, results, settledAt, eligible,
                 selection, ticks>>
  /\ UNCHANGED <<solveVars, sbcVars, loadVars, optVars>>

\* lines 238-252: the list is sorted again, the squad is cut off and summed
Select ==
  /\ upc = "done"
  /\ call.entry = "segment"
  /\ \E el \in {SortByPrice(eligible)} :
       /\ eligible' = el
       /\ selection' = <<SelectSquad(el, call.requirements)>>
  /\ upc' = "selected"
  /\ UNCHANGED <<players, priceCache, now, call, batches, wave, tasks, results,
                 settledAt, ticks>>
  /\ UNCHANGED <<solveVars, sbcVars, loadVars, optVars>>

\* time passes while promises are pending
Tick ==
  /\ upc \in {"wave", "delay"}
  /\ ticks < MaxTicks
  /\ now' = now + RateLimitDelay
  /\ ticks' = ticks + 1
  /\ UNCHANGED <<players, priceCache, call, upc, batches, wave, tasks, results,
                 settledAt, eligible, selection>>
  /\ UNCHANGED <<solveVars, sbcVars, loadVars, optVars>>

NextPrices ==
  \/ UpdatePrices
  \/ FindEligible
  \/ \E id \in 1..3 : FetchStart(id)
  \/ \E id \in 1..3 : FetchEnd(id)
  \/ Settle
  \/ NextWave
  \/ Select
  \/ Tick

SpecPrices == InitPrices /\ [][NextPrices]_vars

\* ------------------------------------ /api/sbc/solutions: one SBC definition
\* mutant: the cost of the segment replaces the sum
AddCost_overwrite(total, cost) == cost

\* sbcSolution.totalCost += Number(segmentSolution.totalCost || 0)
AddCost(total, cost) == total + cost

SolvedSegment(name, cost) == [segmentName |-> name, totalCost |-> cost, error |-> ""]

ErrorSegment(name) ==
  [segmentName |-> name, totalCost |-> 0, error |-> "Could not solve segment"]

InitSolutions ==
  /\ SolveIdle
  /\ PricesIdle
  /\ LoadIdle
  /\ OptIdle
  /\ sbcDef \in { s \in SeqsUpTo(SegmentNames, MaxSbcSegments) :
                    \A a, b \in DOMAIN s : a # b => s[a] # s[b] }
  /\ sbcAt = 1
  /\ sbcSolution = [totalCost |-> 0, segments |-> <<>>]
  /\ sbcLog = <<>>

\* one turn of `for (const segment of sbc.segments)`
SolveSegment ==
  /\ sbcAt >= 1
  /\ sbcAt <= Len(sbcDef)
  /\ \E o \in SolveOutcomes :
       LET name == sbcDef[sbcAt] IN
       /\ sbcSolution' =
            IF o.threw
            THEN [sbcSolution EXCEPT !.segments = (name :> ErrorSegment(name)) @@ @]
            ELSE [totalCost |-> AddCost(sbcSolution.totalCost, o.totalCost),
                  segments |-> (name :> SolvedSegment(name, o.totalCost))
                               @@ sbcSolution.segments]
       /\ sbcLog' = Append(sbcLog, o)
  /\ sbcAt' = sbcAt + 1
  /\ UNCHANGED sbcDef
  /\ UNCHANGED <<solveVars, priceVars, loadVars, optVars>>

\* solutions.push(sbcSolution)
PushSolution ==
  /\ sbcAt = Len(sbcDef) + 1
  /\ sbcAt' = 0
  /\ UNCHANGED <<sbcDef, sbcSolution, sbcLog>>
  /\ UNCHANGED <<solveVars, priceVars, loadVars, optVars>>

NextSolutions ==
  \/ SolveSegment
  \/ PushSolution

SpecSolutions == InitSolutions /\ [][NextSolutions]_vars

\* ------------------------------------- PostgresSBCSolver: initialization
MaxCallers == 3        \* solveSBCSegment calls under way at once
MaxTableBatches == 2   \* most batches of rows in fut_players

NotCalled == [at |-> "idle", offset |-> 0, ran |-> FALSE, saw |-> {}]

\* solveSBCSegment: if (!this.initialized); initialize: if (this.initialized) return
MustLoad(init) == ~init

\* getCheapestSquadForSegment reads this.playersMap before its first await
Selected(c, map) == [c EXCEPT !.at = "selected", !.saw = map]

InitLoad ==
  /\ SolveIdle
  /\ PricesIdle
  /\ SbcIdle
  /\ OptIdle
  /\ initialized = FALSE
  /\ callers = [c \in 1..MaxCallers |-> NotCalled]
  /\ loadedBatches = {}
  /\ tableBatches \in 0..MaxTableBatches

\* solveSBCSegment up to its first await: with the solver initialized the
\* squad is selected, otherwise initialize() starts loadPlayersFromDatabase
SolveCall(c) ==
  /\ callers[c].at = "idle"
  /\ IF MustLoad(initialized)
     THEN callers' = [callers EXCEPT ![c].at = "counting", ![c].ran = TRUE]
     ELSE callers' = [callers EXCEPT ![c] = Selected(@, loadedBatches)]
  /\ UNCHANGED <<initialized, loadedBatches, tableBatches>>
  /\ UNCHANGED <<solveVars, priceVars, sbcVars, optVars>>

\* lines 22-37: the column query and the count query have answered; with an
\* empty table the loop body never runs, initialize sets this.initialized
\* and the squad is selected
Counted(c) ==
  /\ callers[c].at = "counting"
  /\ IF tableBatches = 0
     THEN /\ initialized' = TRUE
          /\ callers' = [callers EXCEPT ![c] = Selected(@, loadedBatches)]
     ELSE /\ callers' = [callers EXCEPT ![c].at = "loading"]
          /\ UNCHANGED initialized
  /\ UNCHANGED <<loadedBatches, tableBatches>>
  /\ UNCHANGED <<solveVars, priceVars, sbcVars, optVars>>

\* lines 42-82: one batch has answered and its rows are set in the map; after
\* the last batch the load returns, initialize sets this.initialized and the
\* squad is selected
LoadBatch(c) ==
  /\ callers[c].at = "loading"
  /\ \E map \in {loadedBatches \cup {callers[c].offset + 1}} :
       /\ loadedBatches' = map
       /\ IF callers[c].offset + 1 < tableBatches
          THEN /\ callers' = [callers EXCEPT ![c].offset = @ + 1]
               /\ UNCHANGED initialized
          ELSE /\ initialized' = TRUE
               /\ callers' = [callers EXCEPT ![c] = Selected(@, map)]
  /\ UNCHANGED tableBatches
  /\ UNCHANGED <<solveVars, priceVars, sbcVars, optVars>>

\* lines 87-90 and 346-349: a query rejects, the error is thrown on
QueryFails(c) ==
  /\ callers[c].at \in {"counting", "loading"}
  /\ callers' = [callers EXCEPT ![c].at = "rejected"]
  /\ UNCHANGED <<initialized, loadedBatches, tableBatches>>
  /\ UNCHANGED <<solveVars, priceVars, sbcVars, optVars>>

NextLoad ==
  \/ \E c \in 1..MaxCallers : SolveCall(c)
  \/ \E c \in 1..MaxCallers : Counted(c)
  \/ \E c \in 1..MaxCallers : LoadBatch(c)
  \/ \E c \in 1..MaxCallers : QueryFails(c)

SpecLoad == InitLoad /\ [][NextLoad]_vars

\* --------------------------------------------------- SBCSolver.optimizeSquad
MaxMissing == 2    \* most positions' players absent from this.players

FormationPositions ==
  <<"GK", "RB", "CB", "CB", "LB", "CDM", "CM", "CM", "RW", "ST", "LW">>

SolverPlayer(id, position, alt, price) ==
  [id |-> id, position |-> position, alternativePositions |-> alt, price |-> price,
   rating |-> 80 + (id % 3), league |-> IF id % 2 = 0 THEN "PL" ELSE "L1",
   nation |-> IF id % 4 = 0 THEN "FRA" ELSE "ENG"]

\* one player for each position, a second CB and CM, and a CAM who also
\* plays CM; all prices differ
AllSolverPlayers ==
  { SolverPlayer(1, "GK", {}, 100), SolverPlayer(2, "RB", {}, 200),
    SolverPlayer(3, "CB", {}, 300), SolverPlayer(4, "CB", {}, 350),
    SolverPlayer(5, "LB", {}, 400), SolverPlayer(6, "CDM", {}, 500),
    SolverPlayer(7, "CM", {}, 600), SolverPlayer(8, "CM", {}, 650),
    SolverPlayer(9, "RW", {}, 700), SolverPlayer(10, "ST", {}, 800),
    SolverPlayer(11, "LW", {}, 900), SolverPlayer(12, "CAM", {"CM"}, 50) }

SolverPlayerSets ==
  { S \in SUBSET AllSolverPlayers : Cardinality(AllSolverPlayers \ S) <= MaxMissing }

SolverRequirements ==
  { <<>>, <<[type |-> "MIN_RATING", value |-> 81]>>,
    <<[type |-> "MIN_LEAGUES", value |-> 2]>>,
    <<[type |-> "EXACT_NATIONS", value |-> 1]>> }

playerMeetsRequirement(player, requirement) ==
  IF requirement.type = "MIN_RATING" THEN player.rating >= requirement.value
  ELSE TRUE

\* eligible.sort((a, b) => a.price - b.price)
SortByPriceAsc(S) ==
  [r \in 1..Cardinality(S) |->
     CHOOSE p \in S : Cardinality({ q \in S : q.price < p.price }) = r - 1]

filterEligiblePlayers(ps, requirements) ==
  SortByPriceAsc({ p \in ps : \A k \in DOMAIN requirements :
                                 playerMeetsRequirement(p, requirements[k]) })

countUniqueLeagues(squad) == Cardinality({ squad[k].league : k \in DOMAIN squad })

countUniqueNations(squad) == Cardinality({ squad[k].nation : k \in DOMAIN squad })

squadMeetsRequirement(squad, requirement) ==
  CASE requirement.type = "MIN_LEAGUES" -> countUniqueLeagues(squad) >= requirement.value
    [] requirement.type = "EXACT_NATIONS" -> countUniqueNations(squad) = requirement.value
    [] OTHER -> TRUE

SBCSolver_validateSquad(squad, requirements) ==
  \A k \in DOMAIN requirements : squadMeetsRequirement(squad, requirements[k])

\* p.position === position || p.alternativePositions?.includes(position)
PlaysAt(p, position) == p.position = position \/ position \in p.alternativePositions

\* eligiblePlayers.filter(...) for one position
positionPlayers(el, position) == SelectSeq(el, LAMBDA p : PlaysAt(p, position))

RECURSIVE PickSquad(_, _, _)
\* the for-of loop over positions from slot k on: a position nobody plays is
\* skipped, otherwise positionPlayers[0] is pushed
PickSquad(el, k, squad) ==
  IF k > Len(FormationPositions) THEN squad
  ELSE LET ps == positionPlayers(el, FormationPositions[k])
       IN  PickSquad(el, k + 1, IF ps = <<>> THEN squad ELSE Append(squad, ps[1]))

\* advancedOptimization is a placeholder that returns null
optimizeSquad(el, requirements) ==
  LET squad == PickSquad(el, 1, <<>>)
  IN  IF SBCSolver_validateSquad(squad, requirements)
      THEN [null |-> FALSE, players |-> squad,
            totalCost |-> SumSeq([k \in DOMAIN squad |-> squad[k].price])]
      ELSE NoSquad

InitOptimize ==
  /\ SolveIdle
  /\ PricesIdle
  /\ SbcIdle
  /\ LoadIdle
  /\ solverPlayers \in SolverPlayerSets
  /\ optReqs \in SolverRequirements
  /\ opc = "called"
  /\ eligiblePlayers = <<>>
  /\ optimized = NoSquad

\* solveSBC: const eligiblePlayers = this.filterEligiblePlayers(requirements)
FilterEligible ==
  /\ opc = "called"
  /\ eligiblePlayers' = filterEligiblePlayers(solverPlayers, optReqs)
  /\ opc' = "filtered"
  /\ UNCHANGED <<solverPlayers, optReqs, optimized>>
  /\ UNCHANGED <<solveVars, priceVars, sbcVars, loadVars>>

\* solveSBC: const optimizedSquad = await this.optimizeSquad(eligiblePlayers, requirements)
Optimize ==
  /\ opc = "filtered"
  /\ optimized' = optimizeSquad(eligiblePlayers, optReqs)
  /\ opc' = "optimized"
  /\ UNCHANGED <<solverPlayers, optReqs, eligiblePlayers>>
  /\ UNCHANGED <<solveVars, priceVars, sbcVars, loadVars>>

NextOptimize ==
  \/ FilterEligible
  \/ Optimize

SpecOptimize == InitOptimize /\ [][NextOptimize]_vars

\* ===================================================================== claims
IdsOf(squad) == { squad[k].id : k \in DOMAIN squad }

IsOk(k) == solutions[k].status = "ok"

NoSegmentAllowsDuplicates == \A s \in DOMAIN segments : ~segments[s].allowDuplicates

IsNoCandidate(reason) == Len(reason) > 0 /\ reason[1] = "No candidate for position"

\* C1: in a solve where no segment sets allowDuplicates, the squads of any
\* two segments with status ok share no candidate id.
C1_OkSquadsDisjoint ==
  NoSegmentAllowsDuplicates =>
    \A a, b \in DOMAIN solutions :
      (a < b /\ IsOk(a) /\ IsOk(b)) =>
        IdsOf(solutions[a].squad) \cap IdsOf(solutions[b].squad) = {}

\* two segments asking for the same slot were both solved
C1_Witness ==
  /\ pc = "sent"
  /\ NoSegmentAllowsDuplicates
  /\ Len(solutions) = 2
  /\ IsOk(1) /\ IsOk(2)
  /\ segments[1].positions = segments[2].positions

\* C2: every result with status ok has a squad with exactly one entry per
\* slot of the requirement's positions, in slot order; this holds of what
\* tryBuildSquad returns and of what the route records.
C2_OneEntryPerSlot ==
  /\ \A k \in DOMAIN solutions :
       IsOk(k) =>
         /\ Len(solutions[k].squad) = Len(PositionsOf(segments[k]))
         /\ \A j \in DOMAIN solutions[k].squad :
              solutions[k].squad[j].assignedPosition = PositionsOf(segments[k])[j]
  /\ (pc = "returned" /\ result.ok) =>
         /\ Len(result.squad) = Len(PositionsOf(segments[seg]))
         /\ \A j \in DOMAIN result.squad :
              result.squad[j].assignedPosition = PositionsOf(segments[seg])[j]

\* a two-slot segment was solved although an earlier one stopped at a slot
C2_Witness ==
  /\ Len(solutions) = 2
  /\ ~IsOk(1) /\ IsNoCandidate(solutions[1].reason)
  /\ IsOk(2) /\ Len(solutions[2].squad) = 2

\* C3: for every result with status ok whose requirement does not set
\* allowDuplicates, the candidate ids of the squad are pairwise distinct.
C3_DistinctIds ==
  \A k \in DOMAIN solutions :
    (IsOk(k) /\ ~segments[k].allowDuplicates) => DistinctIds(solutions[k].squad)

\* both slots of an ok squad could have gone to the candidate in the first
C3_Witness ==
  \E k \in DOMAIN solutions :
    /\ IsOk(k) /\ ~segments[k].allowDuplicates
    /\ Len(solutions[k].squad) = 2
    /\ \/ solutions[k].squad[2].assignedPosition = solutions[k].squad[1].position
       \/ solutions[k].squad[2].assignedPosition \in solutions[k].squad[1].altPositions

\* C4: a failing segment never aborts the solve: for well-formed input the
\* response is the 200 one and holds exactly one result per requested
\* segment, in the declared order.
C4_OneResultPerSegment ==
  (pc = "sent" /\ Len(segments) > 0 /\ Len(candidates) > 0) =>
    /\ response.status = 200
    /\ Len(response.solutions) = Len(segments)
    /\ \A k \in DOMAIN response.solutions : response.solutions[k].segment = k

\* a failed segment is followed, in the response, by a solved one
C4_Witness ==
  /\ pc = "sent"
  /\ Len(solutions) = 2
  /\ response.status = 200
  /\ response.solutions[1].status = "fail"
  /\ response.solutions[2].status = "ok"

C6_AssignmentFailureRetried ==
  (pc = "returned" /\ IsNoCandidate(lastReason)) => attempts = 1 + MaxReshuffles

\* C6 amended: when a reshuffled attempt fails at assignment, tryBuildSquad
\* goes on to the next reshuffle while turns of the loop remain; an
\* assignment failure of the first attempt is returned at once, with the
\* partial squad and without any reshuffle.
C6_ReshuffledFailureRetried ==
  /\ (pc = "returned" /\ IsNoCandidate(lastReason)) =>
       \/ attempts = 1 /\ ~result.ok /\ result.reason = lastReason
       \/ attempts = 1 + MaxReshuffles
  /\ (pc = "reshuffle" /\ attempts = 1) => ~IsNoCandidate(lastReason)

\* a reshuffled attempt has failed at assignment and the loop is still on
C6_Witness ==
  /\ pc = "reshuffle"
  /\ IsNoCandidate(lastReason)
  /\ 1 < attempts /\ attempts < 1 + MaxReshuffles
  /\ LoopRuns(i)

\* C7: when every attempt fails, the returned failure is that of the last
\* attempt made; a last attempt that failed at assignment is not reported
\* with the validator reason of an earlier attempt.
C7_LastFailureReturned ==
  (pc = "returned" /\ ~result.ok) => result.reason = lastReason

C9_PriceBoundChecked ==
  \A k \in DOMAIN solutions :
    (IsOk(k) /\ segments[k].maxTotalPrice # 0) =>
      solutions[k].summary.cost <= segments[k].maxTotalPrice

\* the count maps of the requirement that the squad falls short of
Short(entries, squad, prop) ==
  { e \in DOMAIN entries : countByProp(squad, prop, entries[e][1]) < entries[e][2] }

KeyIn(reason, entries, S) == \E e \in S : entries[e][1] = reason[3]

\* C10: validateSquad checks nation counts, league counts, club counts and
\* chemistry in this order: the reason it returns is that of the earliest
\* type the squad violates, and it passes a squad that violates none.
C10_EarliestTypeWins ==
  pc = "validated" =>
    LET req == segments[seg]
        squad == attempt.squad
        n == Short(req.minNationCount, squad, "nation")
        l == Short(req.minLeagueCount, squad, "league")
        c == Short(req.minClubCount, squad, "club")
        h == req.minChemistry # 0 /\ estimateChemistry(squad) < req.minChemistry
    IN  IF n # {}
        THEN ~check.ok /\ check.reason[1] = "Need"
             /\ KeyIn(check.reason, req.minNationCount, n)
        ELSE IF l # {}
        THEN ~check.ok /\ check.reason[1] = "Need from"
             /\ KeyIn(check.reason, req.minLeagueCount, l)
        ELSE IF c # {}
        THEN ~check.ok /\ check.reason[1] = "Need from"
             /\ KeyIn(check.reason, req.minClubCount, c)
        ELSE IF h
        THEN ~check.ok /\ check.reason[1] = "Chemistry too low"
        ELSE check.ok

\* a squad that violates a constraint of every type
C10_Witness ==
  /\ pc = "validated"
  /\ Short(segments[seg].minNationCount, attempt.squad, "nation") # {}
  /\ Short(segments[seg].minLeagueCount, attempt.squad, "league") # {}
  /\ Short(segments[seg].minClubCount, attempt.squad, "club") # {}
  /\ segments[seg].minChemistry > estimateChemistry(attempt.squad)
  /\ check.reason[1] = "Need"

\* the price the request gives the candidate of this id, 0 when it gives none
RequestPrice(id) == (CHOOSE c \in { candidates[k] : k \in DOMAIN candidates } : c.id = id).price

\* C15: the summary cost of an ok segment result is the sum, over the slots
\* of its squad, of the price of the candidate assigned to the slot, a
\* candidate without price counting 0.
C15_CostIsSumOfPrices ==
  \A k \in DOMAIN solutions :
    IsOk(k) =>
      LET squad == solutions[k].squad
      IN  solutions[k].summary.cost =
            SumSeq([j \in DOMAIN squad |-> RequestPrice(squad[j].id)])

\* a squad of two slots with a priced candidate, and one placed twice
C15_Witness ==
  \E k \in DOMAIN solutions :
    /\ IsOk(k)
    /\ Len(solutions[k].squad) = 2
    /\ solutions[k].squad[1].id = solutions[k].squad[2].id
    /\ solutions[k].summary.cost = 2000

BadBody ==
  \/ shape.segments # "array" \/ segments = <<>>
  \/ shape.candidates # "array" \/ candidates = <<>>

\* C17: a solve request whose segments or candidates field is missing, not
\* an array or empty is answered with status 400, and no assignment, no
\* validation and no persistence step ever runs for it.
C17_BadBodyRejected ==
  BadBody =>
    /\ pc \in {"received", "sent"}
    /\ pc = "sent" => response.status = 400
    /\ attempts = 0 /\ attempt = None /\ check = None
    /\ solutions = <<>>
    /\ ~persisted

\* candidates is present but not an array, segments is a non-empty array
C17_Witness ==
  /\ pc = "sent"
  /\ shape.candidates = "notArray"
  /\ segments # <<>>
  /\ response.status = 400

\* ids taken out of the pool before segment k is tried
Consumed(sols, k) ==
  UNION { IdsOf(sols[j].squad) :
          j \in { j \in 1..(k - 1) : sols[j].status = "ok" /\ ~segments[j].allowDuplicates } }

Starved(sols, k) ==
  /\ ~segments[k].allowDuplicates
  /\ Consumed(sols, k) # {}
  /\ Len(candidates) - Cardinality(Consumed(sols, k)) < Len(PositionsOf(segments[k]))

\* C18: when earlier ok segments have consumed candidates so that fewer
\* remain than a segment without allowDuplicates has slots, the response
\* holds a result for every segment, that segment's result is a failure
\* with the reason "No candidate for position ...", and the earlier ok
\* results are in the response.
C18_StarvedSegmentFails ==
  (pc = "sent" /\ response.status = 200) =>
    /\ Len(response.solutions) = Len(segments)
    /\ \A k \in DOMAIN response.solutions :
         Starved(response.solutions, k) =>
           /\ response.solutions[k].status = "fail"
           /\ IsNoCandidate(response.solutions[k].reason)

\* the first segment took one of two candidates, the second has two slots
C18_Witness ==
  /\ pc = "sent" /\ response.status = 200
  /\ Len(response.solutions) = 2
  /\ Starved(response.solutions, 2)
  /\ Len(candidates) = 2
  /\ Len(segments[2].positions) = 2
  /\ response.solutions[1].status = "ok"

\* C19: tryBuildSquad called with an empty pool returns a failure whose
\* reason names the first slot of the requirement, with an empty squad,
\* after one assignment attempt and no turn of the reshuffle loop.
C19_EmptyPoolFailsAtFirstSlot ==
  (pc = "returned" /\ remaining = <<>>) =>
    /\ ~result.ok
    /\ result.reason = <<"No candidate for position", PositionsOf(segments[seg])[1]>>
    /\ result.squad = <<>>
    /\ attempts = 1
    /\ i = 0

\* the first segment used up the pool, the second is tried on nothing
C19_Witness ==
  /\ pc = "returned"
  /\ remaining = <<>>
  /\ seg = 2
  /\ solutions[1].status = "ok"
  /\ result.reason = <<"No candidate for position", "CM">>

\* the candidates a slot can take from, per tier, as indices of the sorted pool
Tier(pool, used, slot, preferAlt) ==
  LET free == { k \in DOMAIN pool : pool[k].id \notin used }
      primary == { k \in free : pool[k].position = slot }
      alt == { k \in free : slot \in pool[k].altPositions }
      wide == { k \in free : HasW(pool[k].position) /\ HasW(slot) }
  IN  IF primary # {} THEN primary
      ELSE IF preferAlt /\ alt # {} THEN alt
      ELSE wide

\* C20: every slot gets the first unused candidate, in the order of the
\* objective, of the highest tier that is not empty: primary position, then
\* altPositions when preferAltPositions is set, then the wide fallback; the
\* assignment fails at the first slot whose tiers are all empty.
C20_FirstOfHighestTier ==
  pc = "assigned" =>
    LET req == segments[seg]
        positions == PositionsOf(req)
        pool == SortPool(options.objective, FilterPool(req, remaining))
        squad == attempt.squad
        UsedAt(j) == IF req.allowDuplicates THEN {}
                     ELSE { squad[k].id : k \in 1..(j - 1) }
        T(j) == Tier(pool, UsedAt(j), positions[j], options.preferAltPositions)
    IN  /\ Len(squad) <= Len(positions)
        /\ \A j \in DOMAIN squad :
             T(j) # {} /\ squad[j] = Assigned(pool[Min(T(j))], positions[j])
        /\ attempt.ok <=> Len(squad) = Len(positions)
        /\ ~attempt.ok => T(Len(squad) + 1) = {}

\* slot CAM is given to its primary candidate although a candidate with CAM
\* among its altPositions comes earlier in the order
C20_Witness ==
  /\ pc = "assigned"
  /\ options.preferAltPositions
  /\ attempt.ok
  /\ segments[seg].positions[1] = "CAM"
  /\ attempt.squad[1].position = "CAM"
  /\ LET pool == SortPool(options.objective, FilterPool(segments[seg], remaining))
     IN  \E a, b \in DOMAIN pool :
           a < b /\ "CAM" \in pool[a].altPositions /\ pool[b].id = attempt.squad[1].id

\* ------------------------------------------------ claims on the price source
\* the call of updatePricesForPlayers under way: made directly, or by
\* getCheapestSquadForSegment for a segment of priority high
HasUpdate ==
  \/ call.entry = "update"
  \/ call.entry = "segment" /\ call.requirements.priority = "high" /\ eligible # <<>>

\* the card ids the call was given
Requested ==
  IF call.entry = "update" THEN Range(call.cardIds)
  ELSE { eligible[k].id : k \in DOMAIN eligible }

\* updatePricesForPlayers has returned
Returned == HasUpdate /\ upc \in {"done", "selected"}

WaveOf(id) == CHOOSE w \in DOMAIN batches : id \in Range(batches[w])

InFlight == { id \in DOMAIN tasks : tasks[id].st = "fetching" }

\* C11: in one call updatePricesForPlayers(ids, c) at most c fetches are in
\* flight at any instant, no promise of a wave is started before every
\* promise of the waves before it has settled, and the call returns after
\* exactly ceil(|ids| / c) waves.
C11_WavesBounded ==
  /\ Cardinality(InFlight) <= call.maxConcurrent
  /\ \A a, b \in DOMAIN tasks :
       (WaveOf(a) < WaveOf(b) /\ tasks[b].st # "waiting") => tasks[a].st = "done"
  /\ Returned =>
       wave = (Cardinality(Requested) + call.maxConcurrent - 1) \div call.maxConcurrent

\* a fetch of the second wave is in flight after the first wave's fetch ended
C11_Witness ==
  /\ wave = 2
  /\ call.maxConcurrent = 1
  /\ InFlight # {}
  /\ \E id \in DOMAIN tasks : tasks[id].kind \in {"ok", "error"}

\* C12: updatePricesForPlayers never rejects, whatever fetches fail; it runs
\* every wave and returns a map with an entry for each requested id and for
\* no other.
C12_NeverRejects ==
  /\ upc # "rejected"
  /\ Returned => /\ wave = Len(batches)
                 /\ DOMAIN results = Requested

\* a call of two waves returned although one fetch failed and one got 404
C12_Witness ==
  /\ Returned
  /\ wave = 2
  /\ \E id \in DOMAIN tasks : tasks[id].kind = "error"
  /\ \E id \in DOMAIN tasks : tasks[id].kind = "notFound"

\* C13: when updatePricesForPlayers has returned, for every requested id
\* whose fetch succeeded the cache entry holds the fetched price with the
\* time of the fetch as its timestamp, and the in-memory player holds the
\* fetched price with a lastPriceUpdate not before the fetch.
C13_FetchedPriceStored ==
  Returned =>
    \A id \in DOMAIN tasks :
      tasks[id].kind = "ok" =>
        /\ priceCache[id].present
        /\ priceCache[id].price = tasks[id].price
        /\ priceCache[id].timestamp = tasks[id].at
        /\ tasks[id].at >= StartTime + RateLimitDelay
        /\ id \in DOMAIN players =>
             /\ players[id].price = tasks[id].price
             /\ players[id].lastPriceUpdate >= tasks[id].at
             /\ players[id].lastPriceUpdate <= now

\* player 1, loaded at 100, was fetched at 500
C13_Witness ==
  /\ Returned
  /\ 1 \in DOMAIN tasks
  /\ tasks[1].kind = "ok"
  /\ tasks[1].price = 500
  /\ players[1].price = 500
  /\ priceCache[1].price = 500

\* C14: for a segment of priority high the refresh of the eligible
\* candidates is complete when the squad is selected, and the order of the
\* list, the players chosen and totalCost are those of the refreshed prices.
C14_SelectionOnRefreshedPrices ==
  (upc = "selected" /\ call.requirements.priority = "high" /\ eligible # <<>>) =>
    LET sel == selection[1].players
    IN  /\ wave = Len(batches)
        /\ \A id \in Requested : tasks[id].st = "done"
        /\ \A k \in DOMAIN eligible : eligible[k].price = players[eligible[k].id].price
        /\ \A k \in 1..(Len(eligible) - 1) :
             ~PriceBefore(players[eligible[k + 1].id], players[eligible[k].id])
        /\ selection[1].totalCost = SumSeq([k \in DOMAIN sel |-> players[sel[k].id].price])

\* ------------------------------------------- claims on /api/sbc/solutions
\* C16: the totalCost of an SBC is the sum of the totalCost of the segments
\* that solveSBCSegment solved; a segment whose solve threw adds nothing and
\* is recorded under its name with totalCost 0 and an error.
C16_TotalIsSumOfSolved ==
  /\ sbcSolution.totalCost =
       SumSeq([k \in DOMAIN sbcLog |-> IF sbcLog[k].threw THEN 0 ELSE sbcLog[k].totalCost])
  /\ \A k \in DOMAIN sbcLog :
       /\ sbcDef[k] \in DOMAIN sbcSolution.segments
       /\ LET rec == sbcSolution.segments[sbcDef[k]]
          IN  IF sbcLog[k].threw
              THEN rec.totalCost = 0 /\ rec.error # ""
              ELSE rec.totalCost = sbcLog[k].totalCost /\ rec.error = ""

\* two segments, the first failed, the second solved
C16_Witness ==
  /\ sbcAt = 0
  /\ Len(sbcLog) = 2
  /\ sbcLog[1].threw
  /\ ~sbcLog[2].threw
  /\ sbcSolution.totalCost = 400

C22_PoolFrame ==
  Len(lastCall) = 1 =>
    LET c == lastCall[1]
    IN  IF c.res.ok /\ ~c.req.allowDuplicates
        THEN remaining = SelectSeq(c.pool, LAMBDA p : p.id \notin IdsOf(c.res.squad))
        ELSE remaining = c.pool

\* an ok segment that allows duplicates left the pool of two as it was
C22_Witness ==
  /\ Len(lastCall) = 1
  /\ lastCall[1].res.ok
  /\ lastCall[1].req.allowDuplicates
  /\ Len(lastCall[1].pool) = 2
  /\ remaining = lastCall[1].pool

\* the first attempt of the call under way fills every slot and passes validation
FirstAttemptPasses ==
  LET a == assignPlayersToPositions(segments[seg], remaining, options)
  IN  a.ok /\ validateSquad(segments[seg], a.squad).ok

\* C23: tryBuildSquad goes on to a reshuffle only after an attempt that did
\* not both fill every slot and pass validation; the squad it returns with
\* ok is that of the attempt made last, it fills every slot and passes
\* validation; and when the first attempt passes, the call returns after
\* that one attempt with its squad.
C23_ReturnsAtFirstPass ==
  /\ pc = "reshuffle" =>
       ~(attempt.ok /\ validateSquad(segments[seg], attempt.squad).ok)
  /\ (pc = "returned" /\ result.ok) =>
       /\ Len(result.squad) = Len(PositionsOf(segments[seg]))
       /\ validateSquad(segments[seg], result.squad).ok
       /\ attempts > 1 => result.squad = attempt.squad
  /\ (pc \in {"reshuffle", "returned"} /\ FirstAttemptPasses) =>
       /\ pc = "returned"
       /\ attempts = 1
       /\ result.ok
       /\ result.squad =
            assignPlayersToPositions(segments[seg], remaining, options).squad

\* a reshuffled attempt passed after the first attempt had failed validation
C23_Witness ==
  /\ pc = "returned"
  /\ result.ok
  /\ attempts > 1
  /\ ~FirstAttemptPasses

PassesBounds(req, p) ==
  /\ req.minOverall = 0 \/ p.rating >= req.minOverall
  /\ req.maxOverall = 0 \/ p.rating <= req.maxOverall
  /\ req.minRare = 0 \/ p.rare

AllPassBounds(req, squad) == \A k \in DOMAIN squad : PassesBounds(req, squad[k])

\* C24: every player of every squad assignPlayersToPositions produces, be it
\* complete or cut short at an unfilled slot, has a rating within the
\* requirement's minOverall and maxOverall and is rare when minRare is set.
C24_SquadWithinBounds ==
  /\ pc = "reshuffle" => AllPassBounds(segments[seg], attempt.squad)
  /\ pc = "returned" => AllPassBounds(segments[seg], result.squad)
  /\ \A k \in DOMAIN solutions : AllPassBounds(segments[k], solutions[k].squad)

\* a squad cut short at slot CM although the pool holds a CM, who is not rare
C24_Witness ==
  /\ pc = "returned"
  /\ ~result.ok
  /\ Len(result.squad) = 1
  /\ result.reason = <<"No candidate for position", "CM">>
  /\ \E k \in DOMAIN remaining :
       remaining[k].position = "CM" /\ ~PassesBounds(segments[seg], remaining[k])

\* no two eligible candidates of the call under way have the same sort key
DistinctKeys ==
  LET pool == FilterPool(segments[seg], remaining)
  IN  \A a, b \in DOMAIN pool :
        a # b => \/ Before(options.objective, pool[a], pool[b])
                 \/ Before(options.objective, pool[b], pool[a])

\* C26: when the eligible candidates have pairwise distinct sort keys, every
\* reshuffled attempt has the squad of the first attempt, and the call ends,
\* after all retries, with the validation failure of the first attempt.
C26_RetriesRepeatFirst ==
  (pc \in {"reshuffle", "returned"} /\ attempts > 1 /\ DistinctKeys) =>
    LET first == assignPlayersToPositions(segments[seg], remaining, options)
    IN  /\ attempt.ok = first.ok
        /\ attempt.squad = first.squad
        /\ pc = "returned" =>
             /\ ~result.ok
             /\ attempts = MaxReshuffles + 1
             /\ result.reason = validateSquad(segments[seg], first.squad).reason

\* two eligible candidates of different price, all retries spent
C26_Witness ==
  /\ pc = "returned"
  /\ attempts = MaxReshuffles + 1
  /\ DistinctKeys
  /\ Len(FilterPool(segments[seg], remaining)) = 2
  /\ ~result.ok

\* ------------------------------------------------------ further price claims
\* C25: a call of getPlayerPriceFromAPI goes to the price source exactly when
\* the cache holds no entry for the id younger than CacheExpiry at the time
\* of the call; otherwise it returns the price of that entry.
C25_FetchIffNoFreshEntry ==
  \A id \in DOMAIN tasks :
    LET fresh == /\ priceCache[id].present
                 /\ tasks[id].since - priceCache[id].timestamp < CacheExpiry
    IN  /\ tasks[id].st \in {"sleeping", "fetching"} => ~fresh
        /\ tasks[id].kind = "cached" =>
             fresh /\ tasks[id].price = priceCache[id].price

\* C28: when updatePricesForPlayers has returned, a player whose fetch ended
\* in not found or in an error has the price and lastPriceUpdate it had
\* before the call.
C28_FailedFetchLeavesPlayer ==
  Returned =>
    \A id \in DOMAIN tasks :
      tasks[id].kind \in {"notFound", "error"} => players[id] = LoadedPlayers[id]

C29_LoadOnceNoPartialMap ==
  /\ Cardinality({ c \in DOMAIN callers :
                     callers[c].ran /\ callers[c].at # "rejected" }) <= 1
  /\ \A c \in DOMAIN callers :
       callers[c].at = "selected" => callers[c].saw = 1..tableBatches

\* C30: a squad optimizeSquad returns has one player for each of the 11
\* formation positions, in their order, and no player twice.
C30_OnePlayerPerPosition ==
  (opc = "optimized" /\ ~optimized.null) =>
    LET squad == optimized.players
    IN  /\ Len(squad) = Len(FormationPositions)
        /\ \A k \in DOMAIN squad :
             k <= Len(FormationPositions) => PlaysAt(squad[k], FormationPositions[k])
        /\ \A a, b \in DOMAIN squad : a # b => squad[a].id # squad[b].id

====
